---- MODULE Spec2Model ----
(***************************************************************************)
(* The agent pipeline of the Enterprise Multi-Agent Copilot: the LangGraph *)
(* workflow planner -> research -> writer -> verifier with its conditional *)
(* edge back to research, and the AppState threaded through it.            *)
(*                                                                         *)
(* The deliverable texts (draft_output, final_output) are sequences of     *)
(* one-character strings; log fields are atomic strings.  The wall clock   *)
(* (log timestamps, latencies) is left out.                                *)
(***************************************************************************)
EXTENDS Integers, Sequences, FiniteSets, TLC

VARIABLES
    pc,                   \* node the compiled graph runs next, or how invoke ended
    steps,                \* supersteps the graph has executed
    user_task,            \* AppState.user_task
    plan,                 \* AppState.plan
    research_notes,       \* AppState.research_notes
    draft_output,         \* AppState.draft_output
    final_output,         \* AppState.final_output
    citations,            \* AppState.citations
    agent_logs,           \* AppState.agent_logs
    verifier_fail_count,  \* AppState.verifier_fail_count
    verifier_max_retries, \* AppState.verifier_max_retries
    observability,        \* AppState.meta['observability']
    docs,                 \* passages the last retrieve() call returned
    backend_facts,        \* the generation backend's extraction for those passages
    verdicts,             \* verdicts the verifier backend has returned so far
    calls,                \* how often each node has returned
    llm_calls,            \* how often each node has invoked the generation backend
    retrieve_calls,       \* how often run_research has called retrieve()
    retrieved_any,        \* some retrieve() call of this run returned a passage
    returned_citations,   \* citations of the state as run_task returned it
    unique_cites,         \* the citations the Citations tab renders
    ui_writes,            \* fields of the returned AppState the UI has assigned
    search_hits,          \* what the vector store's retriever returned to retrieve()
    sample_docs,          \* data/sample_docs: each file name's content version, 0 if absent
    chroma,               \* the chunks the persisted Chroma collection holds
    fingerprint,          \* data/chroma/.fingerprint
    built_since_change,   \* build_or_update_index has run since the documents last changed
    runs,                 \* two invocations of run_task: each one's AppState
    heap,                 \* the list and dict objects the AppStates refer to
    stepping,             \* the invocation that took the last step
    graph_result,         \* what app.invoke handed back to run_task
    normalized            \* what run_task returns for it

\* one run of run_task
run_vars == << pc, steps, user_task, plan, research_notes, draft_output, final_output, citations,
               agent_logs, verifier_fail_count, verifier_max_retries, observability,
               docs, backend_facts, verdicts, calls, llm_calls, retrieve_calls,
               retrieved_any >>

\* what lives outside a run of run_task
ui_vars == << returned_citations, unique_cites, ui_writes >>

retriever_vars == << search_hits >>

index_vars == << sample_docs, chroma, fingerprint, built_since_change >>

invocation_vars == << runs, heap, stepping >>

normalise_vars == << graph_result, normalized >>

outside_run == << ui_vars, retriever_vars, index_vars, invocation_vars, normalise_vars >>

vars == << run_vars, outside_run >>

\* ---------------------------------------------------------------- bounds

\* Supersteps the graph may execute before invoke gives up (LangGraph's
\* recursion limit, scaled down): 1 planner step and 3 steps per loop pass.
MaxSteps == 13

\* Passages a retrieve() call returns at most (k = 7 in the code, scaled down).
MaxDocs == 3

\* Facts the generation backend extracts at most.
MaxFacts == 2

\* Length of the citation lists handed to dedupe_citations.
MaxCitations == 3

\* Passages the vector store's retriever returns at most.
MaxHits == 3

\* Content versions a document file goes through.
MaxVersions == 2

\* Stages one of two interleaved invocations runs before the graph stops it.
MaxInterleavedSteps == 5

\* Largest verifier_fail_count of a state handed to a function on its own.
MaxFailCount == 3

\* ------------------------------------------------------------------ text

\* Optional[T]: None, or Some(x) holding x
None == << >>

Some(x) == << x >>

Value(o) == o[1]

Lower(ch) ==
    CASE ch = "D" -> "d" [] ch = "I" -> "i" [] ch = "N" -> "n" [] ch = "O" -> "o"
      [] ch = "P" -> "p" [] ch = "T" -> "t" [] ch = "U" -> "u" [] ch = "W" -> "w"
      [] OTHER -> ch

LowerText(s) == [i \in 1..Len(s) |-> Lower(s[i])]

\* needle in haystack, as Python's `in` on str
IsSubstring(needle, haystack) ==
    \E i \in 0..(Len(haystack) - Len(needle)) :
        \A j \in 1..Len(needle) : haystack[i + j] = needle[j]

\* phrase.lower() in output.lower()
ContainsCI(phrase, output) == IsSubstring(LowerText(phrase), LowerText(output))

NOT_FOUND_MARKER ==
    << "N", "o", "t", " ", "f", "o", "u", "n", "d", " ", "i", "n", " ",
       "s", "o", "u", "r", "c", "e", "s" >>

UNABLE_MARKER ==
    << "U", "n", "a", "b", "l", "e", " ", "t", "o", " ", "c", "o", "m", "p", "l", "e", "t", "e",
       " ", "s", "a", "f", "e", "l", "y" >>

\* the writer's fallback deliverable
FALLBACK_DRAFT == <<
    "#", "#", " ", "D", "e", "l", "i", "v", "e", "r", "a", "b", "l", "e", "\n", "\n", "*", "*", 
    "N", "o", "t", " ", "f", "o", "u", "n", "d", " ", "i", "n", " ", "s", "o", "u", "r", "c", 
    "e", "s", ".", "*", "*", " ", "T", "h", "e", " ", "d", "o", "c", "u", "m", "e", "n", "t", 
    " ", "k", "n", "o", "w", "l", "e", "d", "g", "e", " ", "b", "a", "s", "e", " ", "d", "i", 
    "d", " ", "n", "o", "t", " ", "c", "o", "n", "t", "a", "i", "n", " ", "e", "n", "o", "u", 
    "g", "h", " ", "e", "v", "i", "d", "e", "n", "c", "e", " ", "t", "o", " ", "c", "o", "m", 
    "p", "l", "e", "t", "e", " ", "t", "h", "i", "s", " ", "r", "e", "q", "u", "e", "s", "t", 
    ".", "\n", "\n", "#", "#", "#", " ", "W", "h", "a", "t", " ", "I", " ", "n", "e", "e", "d", 
    "\n", "-", " ", "T", "h", "e", " ", "r", "e", "l", "e", "v", "a", "n", "t", " ", "d", "o", 
    "c", "s", " ", "(", "o", "r", " ", "e", "x", "c", "e", "r", "p", "t", "s", ")", " ", "t", 
    "h", "a", "t", " ", "m", "e", "n", "t", "i", "o", "n", " ", "t", "h", "e", " ", "r", "e", 
    "q", "u", "i", "r", "e", "d", " ", "f", "a", "c", "t", "s", ".", "\n", "-", " ", "O", "r", 
    " ", "c", "l", "a", "r", "i", "f", "y", " ", "w", "h", "i", "c", "h", " ", "d", "o", "c", 
    "u", "m", "e", "n", "t", " ", "s", "e", "t", " ", "t", "o", " ", "s", "e", "a", "r", "c", 
    "h", ".", "\n" >>

\* the verifier's safe-failure deliverable
SAFE_FAILURE == <<
    "#", "#", " ", "D", "e", "l", "i", "v", "e", "r", "a", "b", "l", "e", "\n", "\n", "*", "*", 
    "U", "n", "a", "b", "l", "e", " ", "t", "o", " ", "c", "o", "m", "p", "l", "e", "t", "e", 
    " ", "s", "a", "f", "e", "l", "y", ".", "*", "*", " ", "T", "h", "e", " ", "v", "e", "r", 
    "i", "f", "i", "e", "r", " ", "f", "o", "u", "n", "d", " ", "u", "n", "s", "u", "p", "p", 
    "o", "r", "t", "e", "d", " ", "c", "l", "a", "i", "m", "s", ",", " ", "a", "n", "d", " ", 
    "r", "e", "t", "r", "i", "e", "s", " ", "w", "e", "r", "e", " ", "e", "x", "h", "a", "u", 
    "s", "t", "e", "d", ".", "\n", "\n", "#", "#", "#", " ", "W", "h", "a", "t", " ", "t", "o", 
    " ", "d", "o", " ", "n", "e", "x", "t", "\n", "-", " ", "P", "r", "o", "v", "i", "d", "e", 
    " ", "a", "d", "d", "i", "t", "i", "o", "n", "a", "l", " ", "s", "o", "u", "r", "c", "e", 
    " ", "d", "o", "c", "u", "m", "e", "n", "t", "s", " ", "o", "r", " ", "m", "o", "r", "e", 
    " ", "s", "p", "e", "c", "i", "f", "i", "c", " ", "e", "x", "c", "e", "r", "p", "t", "s", 
    ".", "\n", "-", " ", "N", "a", "r", "r", "o", "w", " ", "t", "h", "e", " ", "r", "e", "q", 
    "u", "e", "s", "t", " ", "t", "o", " ", "w", "h", "a", "t", " ", "i", "s", " ", "e", "x", 
    "p", "l", "i", "c", "i", "t", "l", "y", " ", "s", "u", "p", "p", "o", "r", "t", "e", "d", 
    " ", "b", "y", " ", "t", "h", "e", " ", "d", "o", "c", "s", ".", "\n" >>

\* Python truthiness of an Optional[str]
Truthy(s) == s # None /\ Value(s) # << >>

\* ------------------------------------------------------------- AppState

NOT_FOUND == "Not found in sources"

Agents == {"planner", "research", "writer", "verifier"}

AgentLogEntry(agent, action, outcome) ==
    [agent |-> agent, action |-> action, outcome |-> outcome]

ResearchNotes(status, facts) == [status |-> status, facts |-> facts]

\* ---------------------------------------------------------- environment

\* The passage the index ranks i-th for the task.
Passage(i) == [doc_id |-> "doc", location |-> i, page_content |-> i]

\* Results of retrieve(): the top n passages, already free of duplicates.
Retrievable == { [i \in 1..n |-> Passage(i)] : n \in 0..MaxDocs }

\* Citation index lists the backend may attach to a fact.
CitationLists == { << 0, 1 >>, << 5 >>, << -1 >> }

ExtractedFacts == { [fact |-> "f", citations |-> c] : c \in CitationLists }

SeqsUpTo(S, n) == UNION { [1..k -> S] : k \in 0..n }

ResearchOuts ==
    { [status |-> s, facts |-> f] :
        s \in {"ok", NOT_FOUND}, f \in SeqsUpTo(ExtractedFacts, MaxFacts) }

\* The task a user submits.  Its text steers nothing in the workflow: what
\* retrieval and the backends answer for it is chosen freely at each call.
Tasks == {"task"}

Plans == { << "a", "b", "c", "d" >>, << "a", "b", "c", "d", "e", "f" >> }

Verdicts == {"pass", "fail"}

\* ------------------------------------------------------------ run_task

\* the fields of a fresh AppState other than citations, and the run's counters
InitRunFields ==
    /\ steps = 0
    /\ user_task \in Tasks
    /\ plan = << >>
    /\ research_notes = None
    /\ draft_output = None
    /\ final_output = None
    /\ agent_logs = << >>
    /\ verifier_fail_count = 0
    /\ verifier_max_retries = 2
    /\ observability = << >>
    /\ backend_facts = None
    /\ verdicts = << >>
    /\ calls = [a \in Agents |-> 0]
    /\ llm_calls = [a \in Agents |-> 0]
    /\ retrieve_calls = 0
    /\ retrieved_any = FALSE

InitRunState ==
    /\ pc = "planner"
    /\ citations = << >>
    /\ docs = << >>
    /\ InitRunFields

\* nothing presented yet
InitUI ==
    /\ returned_citations = << >>
    /\ unique_cites = << >>
    /\ ui_writes = {}

\* no search under way
InitRetriever == search_hits = << >>

DocNames == {"a.txt", "b.txt"}

RunIds == {1, 2}

NotStarted == [pc |-> "not_started"]

\* no invocation of run_task yet
InitInvocations ==
    /\ runs = [r \in RunIds |-> NotStarted]
    /\ heap = << >>
    /\ stepping = 0

\* app.invoke has not returned
InitNormalise ==
    /\ graph_result = [kind |-> "NoneType"]
    /\ normalized = None

\* no documents, an empty collection, no fingerprint file
InitIndex ==
    /\ sample_docs = [n \in DocNames |-> 0]
    /\ chroma = << >>
    /\ fingerprint = None
    /\ built_since_change = TRUE

InitRun ==
    /\ InitRunState
    /\ InitUI
    /\ InitRetriever
    /\ InitIndex
    /\ InitInvocations
    /\ InitNormalise

Returned_NoRecord(agent) ==
    /\ calls' = [calls EXCEPT ![agent] = @ + 1]
    /\ observability' = observability
    /\ steps' = steps + 1

Returned(agent) ==
    /\ calls' = [calls EXCEPT ![agent] = @ + 1]
    /\ observability' = Append(observability, agent)
    /\ steps' = steps + 1

\* ---------------------------------------------------------------- edges

add_edge_SkipsWriter(node) ==
    CASE node = "planner" -> "research"
      [] node = "research" -> "verifier"
      [] node = "writer" -> "verifier"

add_edge_WriterToPlanner(node) ==
    CASE node = "planner" -> "research"
      [] node = "research" -> "writer"
      [] node = "writer" -> "planner"

\* the unconditional edges of the graph
add_edge(node) ==
    CASE node = "planner" -> "research"
      [] node = "research" -> "writer"
      [] node = "writer" -> "verifier"

\* ------------------------------------------------------------- planner

RunPlanner ==
    /\ pc = "planner"
    /\ steps < MaxSteps
    /\ \E out \in Plans :
        /\ plan' = out
        /\ agent_logs' = Append(agent_logs,
                AgentLogEntry("planner", "created plan", ToString(Len(out)) \o " steps"))
    /\ llm_calls' = [llm_calls EXCEPT !["planner"] = @ + 1]
    /\ Returned("planner")
    /\ pc' = add_edge("planner")
    /\ UNCHANGED << research_notes, draft_output, final_output, citations,
                    verifier_fail_count, verifier_max_retries, user_task, docs, backend_facts,
                    verdicts, retrieve_calls, retrieved_any, outside_run >>

\* ------------------------------------------------------------ research

ResearchNotesAfter_KeepsStale(d, cur) == cur

\* research_notes when run_research returns: the stage returns right after
\* the no-documents branch, whether or not that branch was taken.
ResearchNotesAfter(d, cur) ==
    IF d = << >> THEN Some(ResearchNotes(NOT_FOUND, << >>)) ELSE cur

ResearchCitationsAfter_CitesPassage(d, cur) ==
    IF d = << >> THEN << [doc_id |-> "doc", location |-> 1, snippet |-> "s"] >> ELSE cur

ResearchCitationsAfter(d, cur) ==
    IF d = << >> THEN << >> ELSE cur

ResearchLogAfter_StartsAfresh(d, log) ==
    IF d = << >>
    THEN << AgentLogEntry("researcher", "retrieved sources", "0 docs; not found") >>
    ELSE log

ResearchLogAfter(d, log) ==
    IF d = << >>
    THEN Append(log, AgentLogEntry("researcher", "retrieved sources", "0 docs; not found"))
    ELSE log

RunResearch ==
    /\ pc = "research"
    /\ steps < MaxSteps
    /\ \E d \in Retrievable :
        /\ docs' = d
        /\ retrieved_any' = (retrieved_any \/ d # << >>)
        /\ IF d = << >>
           THEN backend_facts' = None
           ELSE \E out \in ResearchOuts : backend_facts' = Some(out)
        /\ research_notes' = ResearchNotesAfter(d, research_notes)
        /\ citations' = ResearchCitationsAfter(d, citations)
        /\ agent_logs' = ResearchLogAfter(d, agent_logs)
    /\ retrieve_calls' = retrieve_calls + 1
    /\ Returned("research")
    /\ pc' = add_edge("research")
    /\ UNCHANGED << plan, draft_output, final_output, verifier_fail_count,
                    verifier_max_retries, user_task, verdicts, llm_calls, outside_run >>

\* -------------------------------------------------------------- writer

NotesMissing(notes) == notes = None \/ Value(notes).status # "ok"

WriterDraftAfter_EmptyDraft(notes, cur) ==
    IF NotesMissing(notes) THEN Some(<< >>) ELSE cur

WriterDraftAfter_WrongMessage(notes, cur) ==
    IF NotesMissing(notes) THEN Some(SAFE_FAILURE) ELSE cur

WriterDraftAfter(notes, cur) ==
    IF NotesMissing(notes) THEN Some(FALLBACK_DRAFT) ELSE cur

WriterLogAfter(notes, log) ==
    IF NotesMissing(notes)
    THEN Append(log, AgentLogEntry("writer", "drafted deliverable", "insufficient research"))
    ELSE log

RunWriter ==
    /\ pc = "writer"
    /\ steps < MaxSteps
    /\ draft_output' = WriterDraftAfter(research_notes, draft_output)
    /\ agent_logs' = WriterLogAfter(research_notes, agent_logs)
    /\ Returned("writer")
    /\ pc' = add_edge("writer")
    /\ UNCHANGED << plan, research_notes, final_output, citations, verifier_fail_count,
                    verifier_max_retries, user_task, docs, backend_facts, verdicts, llm_calls,
                    retrieve_calls, retrieved_any, outside_run >>

\* ------------------------------------------------------------ verifier

\* draft = state.draft_output or ""
DraftOrEmpty(d) == IF Truthy(d) THEN Value(d) ELSE << >>

VerifierFinalOutputAfter_AlsoOnFail(verdict, draft, cur) == Some(draft)

VerifierFinalOutputAfter(verdict, draft, cur) ==
    IF verdict = "pass" THEN Some(draft) ELSE cur

VerifierFailCountAfter_Decrements(verdict, count) ==
    IF verdict = "fail" THEN count - 1 ELSE count

\* the stage returns before the fail path, so the count is never written
VerifierFailCountAfter(verdict, count) == count

VerifierLogAfter(verdict, log) ==
    IF verdict = "pass"
    THEN Append(log, AgentLogEntry("verifier", "verified draft", "PASS"))
    ELSE log

RunVerifier ==
    /\ pc = "verifier"
    /\ steps < MaxSteps
    /\ \E verdict \in Verdicts :
        /\ verdicts' = Append(verdicts, verdict)
        /\ final_output' =
              VerifierFinalOutputAfter(verdict, DraftOrEmpty(draft_output), final_output)
        /\ verifier_fail_count' = VerifierFailCountAfter(verdict, verifier_fail_count)
        /\ agent_logs' = VerifierLogAfter(verdict, agent_logs)
    /\ llm_calls' = [llm_calls EXCEPT !["verifier"] = @ + 1]
    /\ Returned("verifier")
    /\ pc' = "route"
    /\ UNCHANGED << plan, research_notes, draft_output, citations, verifier_max_retries, user_task,
                    docs, backend_facts, retrieve_calls, retrieved_any, outside_run >>

\* ---------------------------------------------------- conditional edge

should_reroute_IgnoresFinalOutput(fo, count, max) ==
    IF count <= max THEN "research" ELSE "end"

should_reroute_AlwaysEnds(fo, count, max) == "end"

should_reroute_to_research(fo, count, max) ==
    IF Truthy(fo) THEN "end"
    ELSE IF count <= max THEN "research"
    ELSE "end"

Route ==
    /\ pc = "route"
    /\ pc' = IF should_reroute_to_research(final_output, verifier_fail_count,
                                           verifier_max_retries) = "research"
             THEN "research" ELSE "done"
    /\ UNCHANGED << steps, plan, research_notes, draft_output, final_output, citations,
                    agent_logs, verifier_fail_count, verifier_max_retries, user_task, observability,
                    docs, backend_facts, verdicts, calls, llm_calls, retrieve_calls,
                    retrieved_any, outside_run >>

\* app.invoke raises once the step limit is used up with a node still to run
RecursionLimitReached ==
    /\ pc \in {"planner", "research", "writer", "verifier"}
    /\ steps >= MaxSteps
    /\ pc' = "recursion_error"
    /\ UNCHANGED << steps, plan, research_notes, draft_output, final_output, citations,
                    agent_logs, verifier_fail_count, verifier_max_retries, user_task, observability,
                    docs, backend_facts, verdicts, calls, llm_calls, retrieve_calls,
                    retrieved_any, outside_run >>

\* ---------------------------------------------------- backend failures

\* No stage catches what its backend call raises, and neither does run_task:
\* the exception leaves invoke and the run is over.
OnBackendError_Swallowed(agent) ==
    CASE agent = "planner" -> "research"
      [] agent = "research" -> "writer"
      [] agent = "verifier" -> "route"

OnBackendError(agent) ==
    CASE agent = "planner" -> "raised_planner"
      [] agent = "research" -> "raised_research"
      [] agent = "verifier" -> "raised_verifier"

Raised == {"raised_planner", "raised_research", "raised_verifier"}

\* structured.invoke raises in run_planner
PlannerBackendFails ==
    /\ pc = "planner"
    /\ steps < MaxSteps
    /\ llm_calls' = [llm_calls EXCEPT !["planner"] = @ + 1]
    /\ pc' = OnBackendError("planner")
    /\ UNCHANGED << steps, plan, research_notes, draft_output, final_output, citations,
                    agent_logs, verifier_fail_count, verifier_max_retries, user_task, observability,
                    docs, backend_facts, verdicts, calls, retrieve_calls, retrieved_any,
                    outside_run >>

\* retrieve raises in run_research
ResearchRetrievalFails ==
    /\ pc = "research"
    /\ steps < MaxSteps
    /\ retrieve_calls' = retrieve_calls + 1
    /\ pc' = OnBackendError("research")
    /\ UNCHANGED << steps, plan, research_notes, draft_output, final_output, citations,
                    agent_logs, verifier_fail_count, verifier_max_retries, user_task, observability,
                    docs, backend_facts, verdicts, calls, llm_calls, retrieved_any,
                    outside_run >>

\* structured.invoke raises in run_verifier
VerifierBackendFails ==
    /\ pc = "verifier"
    /\ steps < MaxSteps
    /\ llm_calls' = [llm_calls EXCEPT !["verifier"] = @ + 1]
    /\ pc' = OnBackendError("verifier")
    /\ UNCHANGED << steps, plan, research_notes, draft_output, final_output, citations,
                    agent_logs, verifier_fail_count, verifier_max_retries, user_task, observability,
                    docs, backend_facts, verdicts, calls, retrieve_calls, retrieved_any,
                    outside_run >>

Next ==
    \/ RunPlanner
    \/ RunResearch
    \/ RunWriter
    \/ RunVerifier
    \/ Route
    \/ RecursionLimitReached
    \/ PlannerBackendFails
    \/ ResearchRetrievalFails
    \/ VerifierBackendFails

Init == InitRun

Spec == Init /\ [][Next]_vars

\* -------------------------------------------------------- presentation

Citation(doc_id, location, snippet) ==
    [doc_id |-> doc_id, location |-> location, snippet |-> snippet]

Citations ==
    { Citation("a.txt", l, t) : l \in {"chunk 0", "chunk 1"}, t \in {"s", "t"} }

dedupe_citations_Prepends(cites) ==
    LET scan[i \in 0..Len(cites)] ==
            IF i = 0 THEN [seen |-> {}, out |-> << >>]
            ELSE LET c == cites[i]
                     key == << c.doc_id, c.location, c.snippet >>
                 IN  IF key \in scan[i - 1].seen THEN scan[i - 1]
                     ELSE [seen |-> scan[i - 1].seen \cup {key},
                           out |-> << c >> \o scan[i - 1].out]
    IN  scan[Len(cites)].out

dedupe_citations(cites) ==
    LET scan[i \in 0..Len(cites)] ==
            IF i = 0 THEN [seen |-> {}, out |-> << >>]
            ELSE LET c == cites[i]
                     key == << c.doc_id, c.location, c.snippet >>
                 IN  IF key \in scan[i - 1].seen THEN scan[i - 1]
                     ELSE [seen |-> scan[i - 1].seen \cup {key},
                           out |-> Append(scan[i - 1].out, c)]
    IN  scan[Len(cites)].out

\* main, once run_task has returned: the state's citations are replaced by
\* their deduplicated list and the state is kept as last_state
PresentResult ==
    /\ pc = "done"
    /\ returned_citations' = citations
    /\ citations' = dedupe_citations(citations)
    /\ ui_writes' = ui_writes \cup {"citations"}
    /\ pc' = "presented"
    /\ UNCHANGED << steps, plan, research_notes, draft_output, final_output, agent_logs,
                    verifier_fail_count, verifier_max_retries, user_task, observability, docs,
                    backend_facts, verdicts, calls, llm_calls, retrieve_calls,
                    retrieved_any, unique_cites, retriever_vars, index_vars,
                    invocation_vars, normalise_vars >>

\* render_latest_details_under_answer on last_state, after the rerun
RenderDetails ==
    /\ pc = "presented"
    /\ unique_cites' = dedupe_citations(citations)
    /\ pc' = "rendered"
    /\ UNCHANGED << steps, plan, research_notes, draft_output, final_output, citations,
                    agent_logs, verifier_fail_count, verifier_max_retries, user_task, observability,
                    docs, backend_facts, verdicts, calls, llm_calls, retrieve_calls,
                    retrieved_any, returned_citations, ui_writes, retriever_vars,
                    index_vars, invocation_vars, normalise_vars >>

NextUI ==
    \/ PresentResult
    \/ RenderDetails

\* a task typed into the UI: the run, then its presentation
NextApp ==
    \/ Next
    \/ NextUI

SpecApp == Init /\ [][NextApp]_vars

\* ------------------------------------------------------------ retrieve

\* Chunks the store may hold: the same (doc_id, location) can be stored twice.
Chunks ==
    { [doc_id |-> d, location |-> l, page_content |-> t] :
        d \in {"a.txt", "b.txt"}, l \in {"chunk 0", "chunk 1"}, t \in {"x", "y"} }

retrieve_KeyedOnDocId(hits) ==
    LET scan[i \in 0..Len(hits)] ==
            IF i = 0 THEN [seen |-> {}, unique |-> << >>]
            ELSE LET d == hits[i]
                     key == d.doc_id
                 IN  IF key \in scan[i - 1].seen THEN scan[i - 1]
                     ELSE [seen |-> scan[i - 1].seen \cup {key},
                           unique |-> Append(scan[i - 1].unique, d)]
    IN  scan[Len(hits)].unique

\* retrieve, from the retriever's answer on
retrieve(hits) ==
    LET scan[i \in 0..Len(hits)] ==
            IF i = 0 THEN [seen |-> {}, unique |-> << >>]
            ELSE LET d == hits[i]
                     key == << d.doc_id, d.location >>
                 IN  IF key \in scan[i - 1].seen THEN scan[i - 1]
                     ELSE [seen |-> scan[i - 1].seen \cup {key},
                           unique |-> Append(scan[i - 1].unique, d)]
    IN  scan[Len(hits)].unique

RetrieveReturns ==
    /\ pc = "retrieve"
    /\ docs' = retrieve(search_hits)
    /\ pc' = "retrieved"
    /\ UNCHANGED << steps, plan, research_notes, draft_output, final_output, citations,
                    agent_logs, verifier_fail_count, verifier_max_retries, user_task, observability,
                    backend_facts, verdicts, calls, llm_calls, retrieve_calls,
                    retrieved_any, ui_vars, retriever_vars, index_vars,
                    invocation_vars, normalise_vars >>

\* retrieve on any answer of the retriever
InitRetrieve ==
    /\ pc = "retrieve"
    /\ search_hits \in SeqsUpTo(Chunks, MaxHits)
    /\ citations = << >>
    /\ docs = << >>
    /\ InitRunFields
    /\ InitUI
    /\ InitIndex
    /\ InitInvocations
    /\ InitNormalise

NextRetrieve == RetrieveReturns

SpecRetrieve == InitRetrieve /\ [][NextRetrieve]_vars

\* ------------------------------------------------- two invocations

\* the objects of an AppState that are held by reference
LOGS == 1
CITES == 2
META == 3

default_factory_SharedDefault(h, field) == field

\* Field(default_factory=list): a list object of its own for each AppState
default_factory(h, field) == Len(h) + field

\* run_task constructs the AppState; meta is the dict built in the call
StartRun(r) ==
    /\ runs[r] = NotStarted
    /\ heap' = heap \o << << >>, << >>, None >>
    /\ runs' = [runs EXCEPT ![r] =
            [pc |-> "planner", steps |-> 0, plan |-> << >>, research_notes |-> None,
             draft_output |-> None, final_output |-> None,
             citations |-> default_factory(heap, CITES),
             agent_logs |-> default_factory(heap, LOGS),
             verifier_fail_count |-> 0, verifier_max_retries |-> 2,
             meta |-> Len(heap) + META]]
    /\ stepping' = r
    /\ UNCHANGED << run_vars, ui_vars, retriever_vars, index_vars,
                    normalise_vars >>

\* state.meta.setdefault('observability', []).append(...)
ObservabilityAfter(meta, agent) ==
    Some(Append(IF meta = None THEN << >> ELSE Value(meta), agent))

CanStep(r, stage) ==
    /\ runs[r].pc = stage
    /\ runs[r].steps < MaxInterleavedSteps

StepPlanner(r) ==
    /\ CanStep(r, "planner")
    /\ \E out \in Plans :
        /\ runs' = [runs EXCEPT ![r].plan = out, ![r].pc = "research", ![r].steps = @ + 1]
        /\ heap' = [heap EXCEPT
              ![runs[r].agent_logs] = Append(@,
                  AgentLogEntry("planner", "created plan", ToString(Len(out)) \o " steps")),
              ![runs[r].meta] = ObservabilityAfter(@, "planner")]
    /\ stepping' = r
    /\ UNCHANGED << run_vars, ui_vars, retriever_vars, index_vars,
                    normalise_vars >>

\* state.citations = [] binds a new list object
StepResearch(r) ==
    /\ CanStep(r, "research")
    /\ \E d \in Retrievable :
        /\ runs' = [runs EXCEPT
              ![r].research_notes = ResearchNotesAfter(d, @),
              ![r].citations = IF d = << >> THEN Len(heap) + 1 ELSE @,
              ![r].pc = "writer",
              ![r].steps = @ + 1]
        /\ heap' = [heap EXCEPT
              ![runs[r].agent_logs] = ResearchLogAfter(d, @),
              ![runs[r].meta] = ObservabilityAfter(@, "research")]
              \o (IF d = << >> THEN << << >> >> ELSE << >>)
    /\ stepping' = r
    /\ UNCHANGED << run_vars, ui_vars, retriever_vars, index_vars,
                    normalise_vars >>

StepWriter(r) ==
    /\ CanStep(r, "writer")
    /\ runs' = [runs EXCEPT
          ![r].draft_output = WriterDraftAfter(runs[r].research_notes, @),
          ![r].pc = "verifier",
          ![r].steps = @ + 1]
    /\ heap' = [heap EXCEPT
          ![runs[r].agent_logs] = WriterLogAfter(runs[r].research_notes, @),
          ![runs[r].meta] = ObservabilityAfter(@, "writer")]
    /\ stepping' = r
    /\ UNCHANGED << run_vars, ui_vars, retriever_vars, index_vars,
                    normalise_vars >>

StepVerifier(r) ==
    /\ CanStep(r, "verifier")
    /\ \E verdict \in Verdicts :
        /\ runs' = [runs EXCEPT
              ![r].final_output =
                  VerifierFinalOutputAfter(verdict, DraftOrEmpty(runs[r].draft_output), @),
              ![r].verifier_fail_count = VerifierFailCountAfter(verdict, @),
              ![r].pc = "route",
              ![r].steps = @ + 1]
        /\ heap' = [heap EXCEPT
              ![runs[r].agent_logs] = VerifierLogAfter(verdict, @),
              ![runs[r].meta] = ObservabilityAfter(@, "verifier")]
    /\ stepping' = r
    /\ UNCHANGED << run_vars, ui_vars, retriever_vars, index_vars,
                    normalise_vars >>

StepRoute(r) ==
    /\ runs[r].pc = "route"
    /\ runs' = [runs EXCEPT ![r].pc =
          IF should_reroute_to_research(runs[r].final_output, runs[r].verifier_fail_count,
                                        runs[r].verifier_max_retries) = "research"
          THEN "research" ELSE "done"]
    /\ stepping' = r
    /\ UNCHANGED << heap, run_vars, ui_vars, retriever_vars, index_vars,
                    normalise_vars >>

\* a backend call of the stage raises, or the graph's step limit is reached
StepRaises(r) ==
    /\ \/ /\ runs[r].pc \in {"planner", "research", "verifier"}
          /\ runs[r].steps < MaxInterleavedSteps
          /\ runs' = [runs EXCEPT ![r].pc = OnBackendError(runs[r].pc)]
       \/ /\ runs[r].pc \in {"planner", "research", "writer", "verifier"}
          /\ runs[r].steps >= MaxInterleavedSteps
          /\ runs' = [runs EXCEPT ![r].pc = "recursion_error"]
    /\ stepping' = r
    /\ UNCHANGED << heap, run_vars, ui_vars, retriever_vars, index_vars,
                    normalise_vars >>

NextTwoRuns ==
    \/ \E r \in RunIds : StartRun(r)
    \/ \E r \in RunIds : StepPlanner(r)
    \/ \E r \in RunIds : StepResearch(r)
    \/ \E r \in RunIds : StepWriter(r)
    \/ \E r \in RunIds : StepVerifier(r)
    \/ \E r \in RunIds : StepRoute(r)
    \/ \E r \in RunIds : StepRaises(r)

SpecTwoRuns == Init /\ [][NextTwoRuns]_vars

\* --------------------------------------------------------------- index

\* file names in the directory, sorted
RECURSIVE SortedNames(_)
SortedNames(names) ==
    IF names = {} THEN << >>
    ELSE LET first == CHOOSE n \in names :
                 \A m \in names : n = m \/ (n = "a.txt" /\ m = "b.txt")
         IN  << first >> \o SortedNames(names \ {first})

PresentDocs(dir) == { n \in DocNames : dir[n] > 0 }

\* _split_documents on one file: version v of a file splits into v chunks
ChunksOfDoc(name, version) ==
    [i \in 1..version |->
        [doc_id |-> name, location |-> i - 1, page_content |-> << name, version, i - 1 >>]]

RECURSIVE Flatten(_)
Flatten(seqs) == IF seqs = << >> THEN << >> ELSE Head(seqs) \o Flatten(Tail(seqs))

\* _split_documents(_load_documents(dir))
ChunksOfDir(dir) ==
    LET names == SortedNames(PresentDocs(dir))
    IN  Flatten([k \in 1..Len(names) |-> ChunksOfDoc(names[k], dir[names[k]])])

\* docs_fingerprint: names and content hashes of the files
docs_fingerprint(dir) == { << n, dir[n] >> : n \in PresentDocs(dir) }

\* the collection after build_or_update_index
build_or_update_index(dir, store) ==
    IF ChunksOfDir(dir) = << >> THEN store ELSE ChunksOfDir(dir)

\* the fingerprint file after build_or_update_index: it lives in the index directory
FingerprintAfterBuild(dir, fp) ==
    IF ChunksOfDir(dir) = << >> THEN fp ELSE None

\* save_uploaded_files: a file is written, new or over the one of that name
SaveUploadedFile ==
    /\ \E n \in DocNames : \E v \in 1..MaxVersions :
        /\ sample_docs[n] # v
        /\ sample_docs' = [sample_docs EXCEPT ![n] = v]
    /\ built_since_change' = FALSE
    /\ UNCHANGED << chroma, fingerprint, run_vars, ui_vars, retriever_vars,
                    invocation_vars, normalise_vars >>

\* a file disappears from the documents directory
RemoveDocument ==
    /\ \E n \in PresentDocs(sample_docs) :
        sample_docs' = [sample_docs EXCEPT ![n] = 0]
    /\ built_since_change' = FALSE
    /\ UNCHANGED << chroma, fingerprint, run_vars, ui_vars, retriever_vars,
                    invocation_vars, normalise_vars >>

ClearDocsAndIndex ==
    /\ sample_docs' = [n \in DocNames |-> 0]
    /\ chroma' = << >>
    /\ fingerprint' = None
    /\ built_since_change' = TRUE
    /\ UNCHANGED << run_vars, ui_vars, retriever_vars,
                    invocation_vars, normalise_vars >>

BuildOrUpdateIndex ==
    /\ chroma' = build_or_update_index(sample_docs, chroma)
    /\ fingerprint' = FingerprintAfterBuild(sample_docs, fingerprint)
    /\ built_since_change' = TRUE
    /\ UNCHANGED << sample_docs, run_vars, ui_vars, retriever_vars,
                    invocation_vars, normalise_vars >>

EnsureIndexReady ==
    /\ IF PresentDocs(sample_docs) = {}
       THEN UNCHANGED << chroma, fingerprint, built_since_change >>
       ELSE IF fingerprint = Some(docs_fingerprint(sample_docs))
       THEN UNCHANGED << chroma, fingerprint, built_since_change >>
       ELSE /\ chroma' = build_or_update_index(sample_docs, chroma)
            /\ fingerprint' = Some(docs_fingerprint(sample_docs))
            /\ built_since_change' = TRUE
    /\ UNCHANGED << sample_docs, run_vars, ui_vars, retriever_vars,
                    invocation_vars, normalise_vars >>

NextIndex ==
    \/ SaveUploadedFile
    \/ RemoveDocument
    \/ ClearDocsAndIndex
    \/ BuildOrUpdateIndex
    \/ EnsureIndexReady

SpecIndex == Init /\ [][NextIndex]_vars

\* dedupe_citations on any citation list: a returned state with that list
InitDedupe ==
    /\ pc = "done"
    /\ citations \in SeqsUpTo(Citations, MaxCitations)
    /\ docs = << >>
    /\ InitRunFields
    /\ InitUI
    /\ InitRetriever
    /\ InitIndex
    /\ InitInvocations
    /\ InitNormalise

SpecDedupe == InitDedupe /\ [][NextUI]_vars

\* ------------------------------------------------------- normalisation

Opt(S) == {None} \cup { Some(x) : x \in S }

\* AppState objects, over the fields plan, final_output, verifier_fail_count
AppStates ==
    [kind : {"AppState"}, plan : {<< >>} \cup Plans,
     final_output : {None, Some(FALLBACK_DRAFT)},
     verifier_fail_count : 0..MaxFailCount]

\* dicts of those keys; a key that is missing has the value None here
Dicts ==
    [kind : {"dict"}, plan : Opt({<< >>} \cup Plans),
     final_output : Opt({None, Some(FALLBACK_DRAFT)}),
     verifier_fail_count : Opt(0..MaxFailCount)]

GraphResults == AppStates \cup Dicts \cup { [kind |-> k] : k \in {"NoneType", "list", "str"} }

\* AppState(**x): a missing key takes the field's default
AppState(x) ==
    [kind |-> "AppState",
     plan |-> IF x.plan = None THEN << >> ELSE Value(x.plan),
     final_output |-> IF x.final_output = None THEN None ELSE Value(x.final_output),
     verifier_fail_count |->
         IF x.verifier_fail_count = None THEN 0 ELSE Value(x.verifier_fail_count)]

ensure_app_state_PassesThrough(x) == [raises |-> "", state |-> Some(x)]

ensure_app_state(x) ==
    IF x.kind = "AppState" THEN [raises |-> "", state |-> Some(x)]
    ELSE IF x.kind = "dict" THEN [raises |-> "", state |-> Some(AppState(x))]
    ELSE [raises |-> "TypeError", state |-> None]

\* return _ensure_app_state(result)
EnsureAppState ==
    /\ pc = "invoked"
    /\ normalized' = ensure_app_state(graph_result).state
    /\ pc' = IF ensure_app_state(graph_result).raises = "" THEN "returned" ELSE "type_error"
    /\ UNCHANGED << steps, plan, research_notes, draft_output, final_output, citations,
                    agent_logs, verifier_fail_count, verifier_max_retries, user_task, observability,
                    docs, backend_facts, verdicts, calls, llm_calls, retrieve_calls,
                    retrieved_any, graph_result, ui_vars, retriever_vars, index_vars,
                    invocation_vars >>

\* _ensure_app_state on any value app.invoke may hand back
InitEnsure ==
    /\ pc = "invoked"
    /\ graph_result \in GraphResults
    /\ normalized = None
    /\ citations = << >>
    /\ docs = << >>
    /\ InitRunFields
    /\ InitUI
    /\ InitRetriever
    /\ InitIndex
    /\ InitInvocations

NextEnsure == EnsureAppState

SpecEnsure == InitEnsure /\ [][NextEnsure]_vars

\* -------------------------------------------------------------- routing

\* should_reroute_to_research on any state the verifier may leave
InitRoute ==
    /\ pc = "route"
    /\ final_output \in {None, Some(<< >>), Some(FALLBACK_DRAFT), Some(SAFE_FAILURE)}
    /\ verifier_fail_count \in 0..MaxFailCount
    /\ verifier_max_retries \in 0..MaxFailCount
    /\ steps = 0
    /\ user_task \in Tasks
    /\ plan = << >>
    /\ research_notes = None
    /\ draft_output = None
    /\ citations = << >>
    /\ agent_logs = << >>
    /\ observability = << >>
    /\ docs = << >>
    /\ backend_facts = None
    /\ verdicts = << >>
    /\ calls = [a \in Agents |-> 0]
    /\ llm_calls = [a \in Agents |-> 0]
    /\ retrieve_calls = 0
    /\ retrieved_any = FALSE
    /\ InitUI
    /\ InitRetriever
    /\ InitIndex
    /\ InitInvocations
    /\ InitNormalise

NextRoute == Route

SpecRoute == InitRoute /\ [][NextRoute]_vars

\* ------------------------------------------------------------- drafting

\* facts as Research stores them: each with the citations it rests on
ResearchFacts == { [fact |-> "f", citations |-> << c >>] : c \in Citations }

\* research_notes a state may carry into the writer
NotesInputs ==
    {None} \cup { Some(ResearchNotes(st, f)) :
                    st \in {"ok", NOT_FOUND}, f \in SeqsUpTo(ResearchFacts, MaxFacts) }

\* run_writer on any state handed to it
InitWriter ==
    /\ pc = "writer"
    /\ research_notes \in NotesInputs
    /\ draft_output \in {None, Some(FALLBACK_DRAFT)}
    /\ steps = 0
    /\ user_task \in Tasks
    /\ plan = << >>
    /\ final_output = None
    /\ citations = << >>
    /\ agent_logs = << >>
    /\ verifier_fail_count = 0
    /\ verifier_max_retries = 2
    /\ observability = << >>
    /\ docs = << >>
    /\ backend_facts = None
    /\ verdicts = << >>
    /\ calls = [a \in Agents |-> 0]
    /\ llm_calls = [a \in Agents |-> 0]
    /\ retrieve_calls = 0
    /\ retrieved_any = FALSE
    /\ InitUI
    /\ InitRetriever
    /\ InitIndex
    /\ InitInvocations
    /\ InitNormalise

NextWriter == RunWriter

SpecWriter == InitWriter /\ [][NextWriter]_vars

\* -------------------------------------------------------------- claims

LastVerdict == IF verdicts = << >> THEN "none" ELSE verdicts[Len(verdicts)]

\* maxRetries + 1 fail verdicts in a row, from the start of the run
RetriesExhausted ==
    /\ Len(verdicts) >= verifier_max_retries + 1
    /\ \A i \in 1..(verifier_max_retries + 1) : verdicts[i] = "fail"

\* C1: whatever verdicts the verifier backend returns, the run ends after at
\* most maxRetries + 1 invocations of the Verification stage.
C1_VerificationAttemptsBounded ==
    /\ calls["verifier"] <= verifier_max_retries + 1
    /\ (pc = "verifier" => calls["verifier"] < verifier_max_retries + 1)

\* C2: when Verification has failed maxRetries + 1 times in a row, final_output
\* is the safe-failure message ("Unable to complete safely"), no further
\* Research pass runs, and the run ends normally.
C2_SafeFailureAfterRetriesExhausted ==
    RetriesExhausted =>
        /\ final_output = Some(SAFE_FAILURE)
        /\ ContainsCI(UNABLE_MARKER, Value(final_output))
        /\ pc \in {"route", "done"}
        /\ calls["research"] = verifier_max_retries + 1

\* C3: when Verification passes on its first invocation, the run ends with
\* final_output equal to the draft, verifier_fail_count 0, and every stage
\* having run exactly once.
C3_PassOnFirstAttempt ==
    (verdicts # << >> /\ verdicts[1] = "pass") =>
        /\ draft_output # None
        /\ final_output = draft_output
        /\ verifier_fail_count = 0
        /\ \A a \in Agents : calls[a] = 1
        /\ pc \in {"route", "done"}
        /\ should_reroute_to_research(final_output, verifier_fail_count,
                                      verifier_max_retries) = "end"

C3_Witness == pc = "done" /\ verdicts = << "pass" >>

\* C4: a Research pass whose retrieval returns no passage leaves research_notes
\* with status "Not found in sources", and the Drafting pass that follows sets
\* the draft to a text containing "Not found in sources" without invoking the
\* generation backend.
C4_NotFoundAfterEmptyRetrieval ==
    (docs = << >> /\ pc \in {"writer", "verifier", "route", "done"}) =>
        /\ research_notes # None
        /\ Value(research_notes).status = NOT_FOUND

C4_FallbackDraftStep ==
    (pc = "writer" /\ pc' = "verifier" /\ docs = << >>) =>
        /\ draft_output' # None
        /\ ContainsCI(NOT_FOUND_MARKER, Value(draft_output'))
        /\ llm_calls'["writer"] = llm_calls["writer"]

C4_NotFoundPropagation ==
    [](C4_NotFoundAfterEmptyRetrieval) /\ [][C4_FallbackDraftStep]_vars

C4_Witness ==
    /\ pc = "verifier"
    /\ docs = << >>
    /\ draft_output = Some(FALLBACK_DRAFT)

\* C6: in every reachable state 0 <= verifier_fail_count <= maxRetries + 1.
C6_RetryCountInRange ==
    /\ verifier_fail_count >= 0
    /\ verifier_fail_count <= verifier_max_retries + 1

C6_Witness == pc = "route" /\ LastVerdict = "fail" /\ Len(verdicts) > verifier_max_retries

\* C8: final_output is written only by the Verification stage, and whenever it
\* is set it is the draft accepted with a pass verdict or the safe-failure
\* message written when verifier_fail_count > maxRetries.
C8_FinalOutputValue ==
    final_output # None =>
        \/ LastVerdict = "pass" /\ final_output = draft_output
        \/ final_output = Some(SAFE_FAILURE) /\ verifier_fail_count > verifier_max_retries

C8_FinalOutputWriter == final_output' # final_output => pc = "verifier"

C8_OnlyVerifierSetsFinalOutput ==
    [](C8_FinalOutputValue) /\ [][C8_FinalOutputWriter]_vars

C8_Witness == pc = "done" /\ final_output # None /\ Len(verdicts) > 1

\* C9: with no documents indexed (every retrieval empty) and the draft accepted,
\* the returned state has a final output containing "Not found in sources", no
\* citations, and verifier_fail_count 0.
C9_NoDocumentsScenario ==
    (pc = "done" /\ ~retrieved_any /\ LastVerdict = "pass") =>
        /\ final_output # None
        /\ ContainsCI(NOT_FOUND_MARKER, Value(final_output))
        /\ citations = << >>
        /\ verifier_fail_count = 0

C9_Witness == pc = "done" /\ ~retrieved_any /\ LastVerdict = "pass"

\* The indices of a fact that point into n passages, in their order.
C10_KeptIndices(cites, n) ==
    LET InRange(i) == 0 <= i /\ i < n IN SelectSeq(cites, InRange)

\* The facts C10 expects Research to keep, each with the (doc_id, location)
\* of the passages its in-range indices name.
C10_KeptFacts(facts, d) ==
    LET resolved ==
            [k \in 1..Len(facts) |->
                LET idx == C10_KeptIndices(facts[k].citations, Len(d)) IN
                [fact |-> facts[k].fact,
                 citations |-> [j \in 1..Len(idx) |->
                     << d[idx[j] + 1].doc_id, d[idx[j] + 1].location >>]]]
        HasCitation(f) == f.citations # << >>
    IN  SelectSeq(resolved, HasCitation)

C10_NotesFacts(notes) ==
    [k \in 1..Len(notes.facts) |->
        [fact |-> notes.facts[k].fact,
         citations |-> [j \in 1..Len(notes.facts[k].citations) |->
             << notes.facts[k].citations[j].doc_id,
                notes.facts[k].citations[j].location >>]]]

\* C10: for n retrieved passages and the facts the backend extracted, Research
\* keeps of each fact exactly the indices i with 0 <= i < n, keeps a fact iff
\* one of its indices is in range, and drops every other fact.
C10_CitationIndexValidation ==
    (pc = "writer" /\ docs # << >> /\ backend_facts # None
        /\ Value(backend_facts).status = "ok") =>
        /\ research_notes # None
        /\ C10_NotesFacts(Value(research_notes))
             = C10_KeptFacts(Value(backend_facts).facts, docs)

\* C11: after every Research invocation research_notes is present and has one
\* of two shapes: status ok with facts, or "Not found in sources" without.
C11_ResearchNotesShape ==
    calls["research"] >= 1 =>
        /\ research_notes # None
        /\ \/ /\ Value(research_notes).status = "ok"
              /\ Value(research_notes).facts # << >>
           \/ /\ Value(research_notes).status = NOT_FOUND
              /\ Value(research_notes).facts = << >>

IsPrefix(s, t) == Len(s) <= Len(t) /\ \A i \in 1..Len(s) : s[i] = t[i]

\* C13: the log is append-only: every step leaves the entries it finds in
\* place, so the log before a step is a prefix of the log after it.
C13_LogAppendOnly == [][IsPrefix(agent_logs, agent_logs')]_vars

C13_Witness == calls["research"] >= 2 /\ Len(agent_logs) >= 5

\* C15: a backend failure in a stage ends the run at that stage: the stage has
\* made the one failing call and has not returned, nothing runs afterwards and
\* no state is returned.
C15_FailedCallEndsRun ==
    /\ \A a \in {"planner", "verifier"} :
          llm_calls[a] = calls[a] + (IF pc = OnBackendError(a) THEN 1 ELSE 0)
    /\ retrieve_calls
          = calls["research"] + (IF pc = OnBackendError("research") THEN 1 ELSE 0)

C15_NothingAfterFailure == pc \notin Raised

C15_BackendFailurePropagates ==
    [](C15_FailedCallEndsRun) /\ [][C15_NothingAfterFailure]_vars

C15_Witness == pc = "raised_verifier" /\ calls["verifier"] >= 1 /\ final_output = None

\* C16: a state returned by run_task has final_output set, and once
\* final_output is set no stage executes again.
C16_ReturnedStateHasFinalOutput == pc = "done" => final_output # None

C16_NoStageAfterFinalOutput == final_output # None => calls' = calls

C16_FinalOutputEndsRun ==
    [](C16_ReturnedStateHasFinalOutput) /\ [][C16_NoStageAfterFinalOutput]_vars

C16_Witness == pc = "done" /\ final_output # None /\ calls["verifier"] = 2

\* C12: deduplication of citations keyed by (doc_id, location, snippet) is
\* idempotent: deduplicating the deduplicated list gives the same list.
C12_DedupeIdempotent ==
    pc = "rendered" => unique_cites = dedupe_citations(returned_citations)

C12_Witness ==
    /\ pc = "rendered"
    /\ Len(unique_cites) = 2
    /\ Len(returned_citations) = 3

\* C20: the presentation layer leaves the state it got from run_task as it
\* was: it assigns none of its fields, and deduplicates citations on a copy.
C20_UILeavesStateUnchanged ==
    pc \in {"presented", "rendered"} =>
        /\ ui_writes = {}
        /\ citations = returned_citations

C17_Key(d) == << d.doc_id, d.location >>

\* positions of the retriever's answer that hold the first passage of their key
C17_FirstOccurrences ==
    { i \in 1..Len(search_hits) :
        \A j \in 1..(i - 1) : C17_Key(search_hits[j]) # C17_Key(search_hits[i]) }

\* C17: retrieve returns no two passages with the same (doc_id, location),
\* returns the first passage of every pair the retriever's answer holds, and
\* keeps the answer's order.
C17_RetrieveDeduplicates ==
    pc = "retrieved" =>
        /\ \A i, j \in 1..Len(docs) : C17_Key(docs[i]) = C17_Key(docs[j]) => i = j
        /\ Len(docs) = Cardinality(C17_FirstOccurrences)
        /\ \A i \in C17_FirstOccurrences :
              docs[Cardinality({ j \in C17_FirstOccurrences : j <= i })] = search_hits[i]

C17_Witness ==
    /\ pc = "retrieved"
    /\ Len(search_hits) = 3
    /\ Len(docs) = 2
    /\ docs[1].doc_id = docs[2].doc_id

C18_Stored == { chroma[i] : i \in 1..Len(chroma) }

C18_Current == { ChunksOfDir(sample_docs)[i] : i \in 1..Len(ChunksOfDir(sample_docs)) }

\* C18: when every change of the documents has been followed by
\* build_or_update_index, the persisted index holds exactly the chunks of the
\* current documents, each once: nothing stale, nothing twice.
C18_IndexMatchesDocuments ==
    built_since_change =>
        /\ C18_Stored = C18_Current
        /\ Cardinality(C18_Stored) = Len(chroma)

\* an invocation's state as its owner reads it: the fields, the lists followed
C19_View(r) ==
    IF runs[r] = NotStarted THEN NotStarted
    ELSE [runs[r] EXCEPT !.agent_logs = heap[@], !.citations = heap[@], !.meta = heap[@]]

\* C19: with the stages of two invocations interleaved, a step of one
\* invocation changes no field of the other's state: not its log, retry
\* count, citations, research notes, draft, final output or observability list.
C19_RunsIndependent ==
    [][\A r \in RunIds : stepping' # r => C19_View(r)' = C19_View(r)]_vars

\* both invocations are under way, each with stages behind it and ahead of it
C19_Witness ==
    \A r \in RunIds :
        /\ runs[r] # NotStarted
        /\ runs[r].pc \in {"research", "writer", "verifier"}
        /\ runs[r].steps >= 1
        /\ heap[runs[r].agent_logs] # << >>

\* C21: run_task's normalisation returns the AppState itself when the graph
\* yields an AppState, an AppState with the same field values when it yields
\* a dict, and raises TypeError, returning nothing, for any other value.
C21_NormalisesOrRaises ==
    pc \in {"returned", "type_error"} =>
        CASE graph_result.kind = "AppState" ->
                 pc = "returned" /\ normalized = Some(graph_result)
          [] graph_result.kind = "dict" ->
                 /\ pc = "returned"
                 /\ normalized # None
                 /\ Value(normalized).kind = "AppState"
                 /\ graph_result.plan # None =>
                        Value(normalized).plan = Value(graph_result.plan)
                 /\ graph_result.final_output # None =>
                        Value(normalized).final_output = Value(graph_result.final_output)
                 /\ graph_result.verifier_fail_count # None =>
                        Value(normalized).verifier_fail_count
                            = Value(graph_result.verifier_fail_count)
          [] OTHER -> pc = "type_error" /\ normalized = None

C21_Witness ==
    /\ pc = "returned"
    /\ graph_result.kind = "dict"
    /\ graph_result.plan # None /\ Value(graph_result.plan) # << >>
    /\ graph_result.final_output = Some(Some(FALLBACK_DRAFT))
    /\ graph_result.verifier_fail_count = Some(1)
    /\ Value(normalized).verifier_fail_count = 1

C22_FailVerdicts == { i \in 1..Len(verdicts) : verdicts[i] = "fail" }

\* C22: verifier_fail_count starts at 0, grows by one with every fail verdict
\* and changes at no other time: it always equals the number of fail verdicts
\* the run has received.
C22_RetryCountCountsFails ==
    verifier_fail_count = Cardinality(C22_FailVerdicts)

C24_Cycle(i) ==
    IF i = 1 THEN "planner" ELSE << "research", "writer", "verifier" >>[((i - 2) % 3) + 1]

\* C24: Planning runs once and first, then the stages run one at a time in
\* the cycle Research, Drafting, Verification: the stages that have run are a
\* prefix of Planner (Research Writer Verifier)*, and the stage about to run
\* is the next of that sequence.
C24_StageOrder ==
    /\ \A i \in 1..Len(observability) : observability[i] = C24_Cycle(i)
    /\ pc \in Agents => pc = C24_Cycle(Len(observability) + 1)

C24_Witness == Len(observability) >= 8 /\ pc = "writer"

\* C25: after a fail verdict that leaves verifier_fail_count <=
\* verifier_max_retries, final_output is still unset and the router hands the
\* run to Research, not to Drafting, Planning or the end.
C25_FailReentersResearch ==
    [][(pc = "route" /\ LastVerdict = "fail"
            /\ verifier_fail_count <= verifier_max_retries)
        => (final_output = None /\ pc' = "research")]_vars

C25_Witness ==
    /\ pc = "writer"
    /\ verdicts = << "fail" >>
    /\ calls["research"] = 2
    /\ final_output = None

\* the name a stage logs under
C26_LogName(stage) == IF stage = "research" THEN "researcher" ELSE stage

\* C26: every stage invocation appends its log entry before the next stage
\* starts, on every path, so the agents of the log are the stages in the
\* order they ran.
C26_LogFollowsStages ==
    /\ Len(agent_logs) = Len(observability)
    /\ \A i \in 1..Len(agent_logs) : agent_logs[i].agent = C26_LogName(observability[i])

\* retrieval, the backend and the index validation all leave something to keep
C27_Grounded ==
    /\ docs # << >>
    /\ backend_facts # None
    /\ Value(backend_facts).status = "ok"
    /\ C10_KeptFacts(Value(backend_facts).facts, docs) # << >>

\* C27: a Research invocation yields status ok iff in that invocation retrieval
\* returned a passage, the backend reported ok with a fact, and some fact has
\* a citation index in range; otherwise it yields not-found with no facts.
C27_ResearchStatus ==
    pc = "writer" =>
        /\ research_notes # None
        /\ IF C27_Grounded
           THEN Value(research_notes).status = "ok"
           ELSE /\ Value(research_notes).status = NOT_FOUND
                /\ Value(research_notes).facts = << >>

C28_NotesOk == research_notes # None /\ Value(research_notes).status = "ok"

C28_WriterEntries == { i \in 1..Len(agent_logs) : agent_logs[i].agent = "writer" }

RECURSIVE C29_FirstSeen(_, _)
C29_FirstSeen(cites, seen) ==
    IF cites = << >> THEN << >>
    ELSE IF Head(cites) \in seen THEN C29_FirstSeen(Tail(cites), seen)
    ELSE << Head(cites) >> \o C29_FirstSeen(Tail(cites), seen \cup {Head(cites)})

\* the citations of the facts of the notes, in first-seen order, each once
C29_Flattened(notes) ==
    C29_FirstSeen(Flatten([k \in 1..Len(notes.facts) |-> notes.facts[k].citations]), {})

C30_TaskPlanAndLimitKept ==
    [][/\ user_task' = user_task
       /\ verifier_max_retries' = verifier_max_retries
       /\ calls["planner"] >= 1 => plan' = plan]_vars

C30_Witness ==
    /\ calls["verifier"] >= 2
    /\ calls["research"] >= 3
    /\ plan # << >>

\* the step is a stage running to its return
C31_StageReturns ==
    /\ pc \in Agents
    /\ pc' # pc
    /\ pc' \notin Raised \cup {"recursion_error"}

\* C31: every stage invocation that returns appends exactly one record to the
\* observability list, on every path through the stage, and nothing else
\* touches the list: its agents are the stages in the order they ran.
C31_OneRecordPerStage ==
    [][IF C31_StageReturns
       THEN observability' = Append(observability, pc)
       ELSE observability' = observability]_vars

\* a run through both paths of Research and of Verification
C31_Witness ==
    /\ pc = "done"
    /\ verdicts = << "fail", "pass" >>
    /\ retrieved_any
    /\ docs = << >>
    /\ Len(observability) = 7

====
